---- MODULE Spec2Model ----
(***************************************************************************)
(* Model of the multi-agent collaboration system: the HistoryStore (an     *)
(* SQLite table behind a path), the Orchestrator's Board (a Python dict),  *)
(* and the two workflows run_research_collaboration and                    *)
(* run_schedule_optimization, one step per statement that changes state or *)
(* calls a collaborator.  Texts are strings; Python's str methods are      *)
(* computed character by character.                                        *)
(***************************************************************************)
EXTENDS Integers, Sequences, FiniteSets, TLC

\* ------------------------------------------------------------------ bounds

\* Largest value of the `rounds` argument an Orchestrator is constructed with.
MaxRounds == 2

\* A workflow run is started only while the store holds fewer rows than this.
MaxRecords == 2

\* Largest `limit` passed to HistoryStore.latest.
MaxLimit == 2

\* Largest number of rounds a run has behind it where SpecRender takes it up.
MaxPriorRounds == 9

\* Largest `rounds` of the first of the two Orchestrators of SpecShared.
MaxSharedRounds == 1

\* ------------------------------------------------------- Python str methods

\* Printable ASCII in code-point order: chr(32)..chr(95) and chr(97)..chr(126).
\* (chr(96), the backquote, occurs in no text of the program.)
AsciiLow ==
  " !\"#$%&'()*+,-./0123456789:;<=>?@ABCDEFGHIJKLMNOPQRSTUVWXYZ[\\]^_"

AsciiHigh == "abcdefghijklmnopqrstuvwxyz{|}~"

\* The i-th character of s, as a string of length 1.
At(s, i) == SubSeq(s, i, i)

\* Code point of a character.
ord(ch) ==
  IF ch = "\t" THEN 9
  ELSE IF ch = "\n" THEN 10
  ELSE IF ch = "\r" THEN 13
  ELSE IF \E i \in 1..Len(AsciiLow) : At(AsciiLow, i) = ch
       THEN 31 + (CHOOSE i \in 1..Len(AsciiLow) : At(AsciiLow, i) = ch)
       ELSE 96 + (CHOOSE i \in 1..Len(AsciiHigh) : At(AsciiHigh, i) = ch)

chr(n) == IF n <= 95 THEN At(AsciiLow, n - 31) ELSE At(AsciiHigh, n - 96)

\* str.isspace for one character.
isspace(ch) == ch \in {" ", "\t", "\n", "\r", "\f"}

upper_char(ch) ==
  IF isspace(ch) THEN ch
  ELSE IF ord(ch) >= 97 /\ ord(ch) <= 122 THEN chr(ord(ch) - 32) ELSE ch

lower_char(ch) ==
  IF isspace(ch) THEN ch
  ELSE IF ord(ch) >= 65 /\ ord(ch) <= 90 THEN chr(ord(ch) + 32) ELSE ch

RECURSIVE upper(_)
upper(s) == IF s = "" THEN "" ELSE upper_char(At(s, 1)) \o upper(Tail(s))

RECURSIVE lower(_)
lower(s) == IF s = "" THEN "" ELSE lower_char(At(s, 1)) \o lower(Tail(s))

\* str.strip(): leading and trailing whitespace removed.
strip(s) ==
  LET keep == {i \in 1..Len(s) : ~isspace(At(s, i))}
      lo == CHOOSE i \in keep : \A j \in keep : i <= j
      hi == CHOOSE i \in keep : \A j \in keep : i >= j
  IN IF keep = {} THEN "" ELSE SubSeq(s, lo, hi)

startswith(s, prefix) ==
  Len(s) >= Len(prefix) /\ SubSeq(s, 1, Len(prefix)) = prefix

\* str.replace(old, new): every non-overlapping occurrence, left to right.
RECURSIVE replace(_, _, _)
replace(s, old, new) ==
  IF Len(s) < Len(old) THEN s
  ELSE IF startswith(s, old)
       THEN new \o replace(SubSeq(s, Len(old) + 1, Len(s)), old, new)
       ELSE At(s, 1) \o replace(Tail(s), old, new)

\* s[:n]
slice_to(s, n) == SubSeq(s, 1, IF n < Len(s) THEN n ELSE Len(s))

\* `sub in s`.
contains(sub, s) ==
  \E i \in 1..(Len(s) - Len(sub) + 1) : SubSeq(s, i, i + Len(sub) - 1) = sub

Digits == "0123456789"

\* str(n) for n >= 0, as the f-string formats an int.
RECURSIVE str(_)
str(n) ==
  IF n < 10 THEN At(Digits, n + 1)
  ELSE str(n \div 10) \o At(Digits, (n % 10) + 1)

\* a < b on Python strings: lexicographic by code point.
str_lt(a, b) ==
  \E i \in 1..(Len(a) + 1) :
     /\ i <= Len(b)
     /\ SubSeq(a, 1, i - 1) = SubSeq(b, 1, i - 1)
     /\ \/ i = Len(a) + 1
        \/ At(a, i) # At(b, i) /\ ord(At(a, i)) < ord(At(b, i))

\* Variant of sorted: the keys as they come, in the dict's insertion order.
unsorted(ks) == ks

\* sorted(keys): ascending, by insertion into an already sorted list.
RECURSIVE insert_sorted(_, _)
insert_sorted(k, ks) ==
  IF ks = <<>> THEN <<k>>
  ELSE IF str_lt(k, Head(ks)) THEN <<k>> \o ks
       ELSE <<Head(ks)>> \o insert_sorted(k, Tail(ks))

RECURSIVE sorted(_)
sorted(ks) ==
  IF ks = <<>> THEN <<>>
  ELSE insert_sorted(ks[Len(ks)], sorted(SubSeq(ks, 1, Len(ks) - 1)))

\* sep.join(parts)
RECURSIVE join(_, _)
join(sep, parts) ==
  IF parts = <<>> THEN ""
  ELSE IF Len(parts) = 1 THEN parts[1]
       ELSE parts[1] \o sep \o join(sep, Tail(parts))

\* --------------------------------------------------------------- data model

\* @dataclass Contribution.  confidence is kept in tenths: 8 is 0.8, 9 is 0.9.
Contribution(role, answer, confidence, rationale, iteration) ==
  [role |-> role, answer |-> answer, confidence |-> confidence,
   rationale |-> rationale, iteration |-> iteration]

\* dataclasses.asdict(contrib): the same fields as a dict.
asdict(c) ==
  [role |-> c.role, answer |-> c.answer, confidence |-> c.confidence,
   rationale |-> c.rationale, iteration |-> c.iteration]

\* A Python dict is a sequence of [key, value] items in insertion order.
dict_keys(d) == [i \in 1..Len(d) |-> d[i].key]

dict_has(d, k) == \E i \in 1..Len(d) : d[i].key = k

dict_get(d, k) == d[CHOOSE i \in 1..Len(d) : d[i].key = k].value

\* d[k] = v: an existing key keeps its position, a new key goes last.
dict_set(d, k, v) ==
  IF dict_has(d, k)
  THEN [i \in 1..Len(d) |-> IF d[i].key = k THEN [key |-> k, value |-> v] ELSE d[i]]
  ELSE Append(d, [key |-> k, value |-> v])

\* Variant of board_key: the round is left out of the key.
board_key_no_round(role, r) == role \o "-r1"

\* f"{role}-r{r}"
board_key(role, r) == role \o "-r" \o str(r)

\* ------------------------------------------------------------------- inputs

\* Texts a non-moderator agent's generate() returns in the model.
AgentAnswers(role) == IF role = "ResearchBot" THEN {"Paris", "a guess"} ELSE {"idea"}

\* Texts the moderator's generate() returns in the model.
ModeratorAnswers ==
  {"NEXT_STEP: no CONCLUSION: yet", "CONCLUSION: X",
   " conclusion: done \n", "CONCLUSION: A CONCLUSION: B"}

\* Tasks run_research_collaboration is called with: any text when the agents
\* are model-backed (they answer as they like), and for the FakeLLM agents the
\* two questions of main.py's tests in several spellings, a task that asks for
\* both capitals, and the topic of main.py's demo.
Tasks(hf) ==
  IF hf THEN {"RCB won their first IPL title"}
  ELSE {"What is the capital of France?", "CAPITAL OF INDIA",
        "capital of india or capital of france", "RCB won their first IPL title"}

\* Transcripts run_schedule_optimization is called with.
Transcripts == {"D: Let's schedule a meeting."}

\* Texts the TranscriptSummarizer returns in the model.
Summaries == {"Budget is open."}

\* Texts the ActionItemExtractor returns in the model.
ActionItems ==
  {"Schedule the Budget report", "finalize report", "Review notes", "Send the budget"}

\* Values find_available_calendar_slot returns in the model ('%Y-%m-%d %H:%M').
Slots == {"2026-01-05 13:30", "2026-01-06 09:05"}

\* -------------------------------------------------------------------- state

VARIABLES
  table,            \* rows of the contributions table behind the store path
  sqlite_sequence,  \* largest id the AUTOINCREMENT column has handed out
  rows,             \* what HistoryStore.latest returned, if the last step called it
  store_call,       \* history: the HistoryStore call the last step made from outside a run
  rounds,           \* Orchestrator.rounds
  board,            \* Orchestrator.board
  agents,           \* Orchestrator.agents: the roles, in dict order
  use_hf,           \* Orchestrator.use_hf: model-backed agents, else FakeLLM
  task,             \* argument task of run_research_collaboration
  workflow,         \* "none" | "research" | "schedule": the method last called
  status,           \* "idle" | "running" | "returned" | "raised"
  pc,               \* the statement the running workflow is at
  r,                \* loop variable r of run_research_collaboration
  agent_idx,        \* position of the inner loop in self.agents.items()
  output,           \* output / mod_output / summary / action_items
  contrib,          \* local contrib, <<>> while unset
  final_report,     \* local final_report / final_report_text
  summary,          \* local summary of run_schedule_optimization
  meeting_title,    \* local meeting_title
  follow_up_time,   \* local follow_up_time
  result,           \* <<summary>> once run_research_collaboration returned
  appended,         \* history: the Contributions inserted, in insertion order
  run_start,        \* history: Len(appended) when the current run started
  calls,            \* history: generate() calls of the current run
  puts,             \* history: board items written by the current run
  tool_calls,       \* history: calendar tool calls of the current run
  log_failed,       \* history: a store.log of the current run raised
  inst,             \* the Orchestrator objects of SpecShared, each with its locals
  lock,             \* the instance whose connection holds the database's write lock, or 0
  staged,           \* the row the lock holder has inserted and not yet committed
  owner             \* history: which instance inserted each element of appended

store_vars == <<table, sqlite_sequence, appended>>
orch_vars == <<rounds, board, agents, use_hf>>
run_vars == <<workflow, task, status, pc, r, agent_idx, output, contrib, final_report,
              summary, meeting_title, follow_up_time, result,
              run_start, calls, puts, tool_calls, log_failed>>
shared_vars == <<inst, lock, staged, owner>>
vars == <<store_vars, rows, store_call, orch_vars, run_vars, shared_vars>>

\* ------------------------------------------------------------------ FakeLLM

\* Variant of FakeLLM_generate: the ResearchBot without its India rule.
FakeLLM_generate_france_only(role, t, board_text) ==
  LET task_lower == lower(t)
      context == IF board_text # "" /\ board_text # "(empty)" THEN board_text ELSE t
  IN IF role = "ResearchBot"
     THEN IF contains("capital of france", task_lower)
          THEN "Paris is the capital of France, known for the Eiffel Tower."
          ELSE "(fact guess about: " \o slice_to(t, 40) \o "...)"
     ELSE IF role = "CreativeBot" THEN "A whimsical story about: " \o context
     ELSE IF role = "AnalysisBot"
          THEN "Key points from the board: " \o slice_to(context, 60)
     ELSE IF role = "Moderator"
          THEN IF contains("Paris", context) \/ contains("New Delhi", context)
               THEN "CONCLUSION: The report is complete."
               ELSE "NEXT_STEP: The research is incomplete."
     ELSE "Unhandled role " \o role

\* FakeLLM(role).generate(task, board)
FakeLLM_generate(role, t, board_text) ==
  LET task_lower == lower(t)
      context == IF board_text # "" /\ board_text # "(empty)" THEN board_text ELSE t
  IN IF role = "ResearchBot"
     THEN IF contains("capital of france", task_lower)
          THEN "Paris is the capital of France, known for the Eiffel Tower."
          ELSE IF contains("capital of india", task_lower) THEN "New Delhi"
          ELSE "(fact guess about: " \o slice_to(t, 40) \o "...)"
     ELSE IF role = "CreativeBot" THEN "A whimsical story about: " \o context
     ELSE IF role = "AnalysisBot"
          THEN "Key points from the board: " \o slice_to(context, 60)
     ELSE IF role = "Moderator"
          THEN IF contains("Paris", context) \/ contains("New Delhi", context)
               THEN "CONCLUSION: The report is complete."
               ELSE "NEXT_STEP: The research is incomplete."
     ELSE "Unhandled role " \o role

\* What agent.generate(task, board) may return: the text FakeLLM computes, or,
\* for a model-backed agent, any text of the model's input sets.
generate(hf, role, t, board_text) ==
  IF hf
  THEN IF role = "Moderator" THEN ModeratorAnswers ELSE AgentAnswers(role)
  ELSE {FakeLLM_generate(role, t, board_text)}

\* ------------------------------------------------------------- HistoryStore

\* Variant of _init: the table is created anew on every construction.
_init_recreate(t) == {}

\* HistoryStore._init on a path whose table t exists (it does from the first
\* construction on): CREATE TABLE IF NOT EXISTS leaves the table as it is.
_init(t) == t

\* The row INSERT adds for c: id is the next AUTOINCREMENT value.  (The ts
\* column, time.time(), is read by no query and is left out.)
inserted_row(c, seq) ==
  [id |-> seq + 1, role |-> c.role, answer |-> c.answer,
   confidence |-> c.confidence, rationale |-> c.rationale,
   iteration |-> c.iteration]

\* Variant of order_by_id_desc: ORDER BY id ASC, smallest id first.
RECURSIVE order_by_id_asc(_)
order_by_id_asc(t) ==
  IF t = {} THEN <<>>
  ELSE LET low == CHOOSE x \in t : \A y \in t : x.id <= y.id
       IN <<low>> \o order_by_id_asc(t \ {low})

\* ORDER BY id DESC: the rows of t as a sequence, largest id first.
RECURSIVE order_by_id_desc(_)
order_by_id_desc(t) ==
  IF t = {} THEN <<>>
  ELSE LET top == CHOOSE x \in t : \A y \in t : y.id <= x.id
       IN <<top>> \o order_by_id_desc(t \ {top})

\* HistoryStore.latest(limit), limit >= 0:
\* SELECT role, answer, confidence, rationale, iteration ... ORDER BY id DESC LIMIT ?
latest(t, limit) ==
  LET ordered == order_by_id_desc(t)
      n == IF limit < Len(ordered) THEN limit ELSE Len(ordered)
  IN [i \in 1..n |->
        Contribution(ordered[i].role, ordered[i].answer, ordered[i].confidence,
                     ordered[i].rationale, ordered[i].iteration)]

\* No HistoryStore call in this step.
no_call == [op |-> "none", limit |-> -1]

\* HistoryStore(path) on the same path again.
HistoryStore_init ==
  /\ status # "running"
  /\ table' = _init(table)
  /\ UNCHANGED <<sqlite_sequence, appended, orch_vars, run_vars>>
  /\ rows' = <<>>
  /\ store_call' = [op |-> "open", limit |-> -1]
  /\ UNCHANGED shared_vars

\* HistoryStore.log(c) commits: one row more.
log(c) ==
  /\ table' = table \cup {inserted_row(c, sqlite_sequence)}
  /\ sqlite_sequence' = sqlite_sequence + 1
  /\ appended' = Append(appended, c)

\* HistoryStore.log(c) raises (sqlite3.Error): nothing is committed.
log_raises ==
  /\ UNCHANGED store_vars

\* HistoryStore.latest(limit), as main.py's test calls it after a run.
HistoryStore_latest ==
  /\ status # "running"
  /\ \E limit \in 0..MaxLimit :
       /\ rows' = latest(table, limit)
       /\ store_call' = [op |-> "latest", limit |-> limit]
  /\ UNCHANGED <<store_vars, orch_vars, run_vars>>
  /\ UNCHANGED shared_vars

\* ------------------------------------------------------------- Orchestrator

\* Orchestrator._board_text on board b.
_board_text(b) ==
  IF b = <<>> THEN "(empty)"
  ELSE LET keys == sorted(dict_keys(b))
           parts == [i \in 1..Len(keys) |->
                       "--- Contribution from " \o keys[i] \o " ---\n"
                         \o dict_get(b, keys[i]).answer]
       IN join("\n\n", parts)

\* Values of the locals while no run has set them.
idle_locals ==
  /\ pc' = "none"
  /\ r' = 0
  /\ agent_idx' = 0
  /\ output' = ""
  /\ contrib' = <<>>
  /\ final_report' = ""
  /\ summary' = ""
  /\ meeting_title' = ""
  /\ follow_up_time' = ""

\* Orchestrator(store, rounds, use_hf): a new object, its board an empty dict.
\* (A behaviour uses one backend: use_hf is passed the value it starts with.)
Orchestrator_init ==
  /\ status # "running"
  /\ \E n \in 0..MaxRounds : rounds' = n
  /\ use_hf' = use_hf
  /\ board' = <<>>
  /\ agents' = <<>>
  /\ workflow' = "none"
  /\ task' = ""
  /\ status' = "idle"
  /\ idle_locals
  /\ result' = <<>>
  /\ calls' = <<>>
  /\ puts' = <<>>
  /\ tool_calls' = <<>>
  /\ log_failed' = FALSE
  /\ UNCHANGED <<store_vars, run_start>>
  /\ rows' = <<>>
  /\ store_call' = no_call
  /\ UNCHANGED shared_vars

\* A workflow method is entered: the history of the run starts afresh.
enter_run(w) ==
  /\ status # "running"
  /\ Len(appended) < MaxRecords
  /\ workflow' = w
  /\ status' = "running"
  /\ run_start' = Len(appended)
  /\ calls' = <<>>
  /\ puts' = <<>>
  /\ tool_calls' = <<>>
  /\ log_failed' = FALSE
  /\ result' = <<>>
  /\ output' = ""
  /\ contrib' = <<>>
  /\ summary' = ""
  /\ meeting_title' = ""
  /\ follow_up_time' = ""

\* Variant of raise_out: the exception is caught and the workflow goes on.
raise_ignored ==
  /\ log_raises
  /\ log_failed' = TRUE
  /\ status' = status
  /\ pc' = IF pc = "log" THEN "put"
           ELSE IF pc = "mod_log" THEN "mod_put"
           ELSE IF pc = "sched_log" THEN "sched_put"
           ELSE "none"

\* A store.log call raised: the exception leaves the workflow method.
raise_out ==
  /\ log_raises
  /\ status' = "raised"
  /\ log_failed' = TRUE
  /\ pc' = "none"

\* Variant of concluded: the test without .upper().
concluded_case_sensitive(mod_output) == startswith(strip(mod_output), "CONCLUSION:")

\* The termination test: mod_output.strip().upper().startswith("CONCLUSION:").
concluded(mod_output) == startswith(upper(strip(mod_output)), "CONCLUSION:")

\* The report of a concluding round: mod_output.replace("CONCLUSION:", "").strip().
report_of(mod_output) == strip(replace(mod_output, "CONCLUSION:", ""))

\* Variant of in_range: a loop without an upper end.
in_range_unbounded(n) == n >= 1

\* Variant of in_range: range(1, self.rounds), one round short.
in_range_short(n) == n >= 1 /\ n < rounds

\* range(1, self.rounds + 1) still yields round n.
in_range(n) == n >= 1 /\ n <= rounds

\* Variant of run_research_collaboration: the agents dict in another order.
run_research_collaboration_reordered ==
  /\ enter_run("research")
  /\ \E t \in Tasks(use_hf) : task' = t
  /\ agents' = <<"CreativeBot", "ResearchBot", "AnalysisBot">>
  /\ final_report' = "No conclusion reached after maximum rounds."
  /\ r' = 1
  /\ agent_idx' = 1
  /\ pc' = IF in_range(1) THEN "generate" ELSE "return"
  /\ UNCHANGED <<store_vars, rounds, use_hf, board>>
  /\ rows' = <<>>
  /\ store_call' = no_call
  /\ UNCHANGED shared_vars

\* run_research_collaboration(task), up to the first round.
run_research_collaboration ==
  /\ enter_run("research")
  /\ \E t \in Tasks(use_hf) : task' = t
  /\ agents' = <<"ResearchBot", "CreativeBot", "AnalysisBot">>
  /\ final_report' = "No conclusion reached after maximum rounds."
  /\ r' = 1
  /\ agent_idx' = 1
  /\ pc' = IF in_range(1) THEN "generate" ELSE "return"
  /\ UNCHANGED <<store_vars, rounds, use_hf, board>>
  /\ rows' = <<>>
  /\ store_call' = no_call
  /\ UNCHANGED shared_vars

\* Variant of Research_Generate: the board is written before the store.
Research_Generate_put_first ==
  /\ status = "running" /\ pc = "generate"
  /\ \E out \in generate(use_hf, agents[agent_idx], task, _board_text(board)) :
       /\ output' = out
       /\ contrib' = Contribution(agents[agent_idx], out, 8, "generated", r)
       /\ board' = dict_set(board, board_key(agents[agent_idx], r),
                            asdict(Contribution(agents[agent_idx], out, 8, "generated", r)))
  /\ calls' = Append(calls, [role |-> agents[agent_idx], iteration |-> r,
                             board |-> _board_text(board)])
  /\ pc' = "log"
  /\ UNCHANGED <<store_vars, rounds, use_hf, agents, workflow, task, status, r, agent_idx,
                 final_report, summary, meeting_title, follow_up_time, result,
                 run_start, tool_calls, log_failed, puts>>
  /\ rows' = <<>>
  /\ store_call' = no_call
  /\ UNCHANGED shared_vars

\* output = agent.generate(task, self._board_text()); contrib = Contribution(...)
Research_Generate ==
  /\ status = "running" /\ pc = "generate"
  /\ \E out \in generate(use_hf, agents[agent_idx], task, _board_text(board)) :
       /\ output' = out
       /\ contrib' = Contribution(agents[agent_idx], out, 8, "generated", r)
  /\ calls' = Append(calls, [role |-> agents[agent_idx], iteration |-> r,
                             board |-> _board_text(board)])
  /\ pc' = "log"
  /\ UNCHANGED <<store_vars, orch_vars, workflow, task, status, r, agent_idx,
                 final_report, summary, meeting_title, follow_up_time, result,
                 run_start, tool_calls, log_failed, puts>>
  /\ rows' = <<>>
  /\ store_call' = no_call
  /\ UNCHANGED shared_vars

\* self.store.log(contrib) for an agent's contribution.
Research_Log ==
  /\ status = "running" /\ pc = "log"
  /\ \/ log(contrib) /\ pc' = "put" /\ UNCHANGED <<status, log_failed>>
     \/ raise_out
  /\ UNCHANGED <<orch_vars, workflow, task, r, agent_idx, output, contrib,
                 final_report, summary, meeting_title, follow_up_time, result,
                 run_start, calls, tool_calls, puts>>
  /\ rows' = <<>>
  /\ store_call' = no_call
  /\ UNCHANGED shared_vars

\* self.board[f"{role}-r{r}"] = asdict(contrib), then the next agent or the moderator.
Research_Put ==
  /\ status = "running" /\ pc = "put"
  /\ puts' = Append(puts, [key |-> board_key(contrib.role, r), value |-> asdict(contrib)])
  /\ board' = dict_set(board, board_key(contrib.role, r), asdict(contrib))
  /\ IF agent_idx < Len(agents)
     THEN agent_idx' = agent_idx + 1 /\ pc' = "generate"
     ELSE agent_idx' = agent_idx /\ pc' = "mod_generate"
  /\ UNCHANGED <<store_vars, rounds, use_hf, agents, workflow, task, status, r, output,
                 contrib, final_report, summary, meeting_title, follow_up_time,
                 result, run_start, calls, tool_calls, log_failed>>
  /\ rows' = <<>>
  /\ store_call' = no_call
  /\ UNCHANGED shared_vars

\* Variant of Moderator_Generate: the moderator is handed the task alone.
Moderator_Generate_no_board ==
  /\ status = "running" /\ pc = "mod_generate"
  /\ \E out \in generate(use_hf, "Moderator", task, "(empty)") :
       /\ output' = out
       /\ contrib' = Contribution("Moderator", out, 9, "review", r)
  /\ calls' = Append(calls, [role |-> "Moderator", iteration |-> r,
                             board |-> "(empty)"])
  /\ pc' = "mod_log"
  /\ UNCHANGED <<store_vars, orch_vars, workflow, task, status, r, agent_idx,
                 final_report, summary, meeting_title, follow_up_time, result,
                 run_start, tool_calls, log_failed, puts>>
  /\ rows' = <<>>
  /\ store_call' = no_call
  /\ UNCHANGED shared_vars

\* mod_output = self.moderator.generate(task, self._board_text()); contrib = ...
Moderator_Generate ==
  /\ status = "running" /\ pc = "mod_generate"
  /\ \E out \in generate(use_hf, "Moderator", task, _board_text(board)) :
       /\ output' = out
       /\ contrib' = Contribution("Moderator", out, 9, "review", r)
  /\ calls' = Append(calls, [role |-> "Moderator", iteration |-> r,
                             board |-> _board_text(board)])
  /\ pc' = "mod_log"
  /\ UNCHANGED <<store_vars, orch_vars, workflow, task, status, r, agent_idx,
                 final_report, summary, meeting_title, follow_up_time, result,
                 run_start, tool_calls, log_failed, puts>>
  /\ rows' = <<>>
  /\ store_call' = no_call
  /\ UNCHANGED shared_vars

\* self.store.log(contrib) for the moderator's contribution.
Moderator_Log ==
  /\ status = "running" /\ pc = "mod_log"
  /\ \/ log(contrib) /\ pc' = "mod_put" /\ UNCHANGED <<status, log_failed>>
     \/ raise_out
  /\ UNCHANGED <<orch_vars, workflow, task, r, agent_idx, output, contrib,
                 final_report, summary, meeting_title, follow_up_time, result,
                 run_start, calls, tool_calls, puts>>
  /\ rows' = <<>>
  /\ store_call' = no_call
  /\ UNCHANGED shared_vars

\* self.board[f"Moderator-r{r}"] = asdict(contrib)
Moderator_Put ==
  /\ status = "running" /\ pc = "mod_put"
  /\ puts' = Append(puts, [key |-> board_key("Moderator", r), value |-> asdict(contrib)])
  /\ board' = dict_set(board, board_key("Moderator", r), asdict(contrib))
  /\ pc' = "test"
  /\ UNCHANGED <<store_vars, rounds, use_hf, agents, workflow, task, status, r,
                 agent_idx, output, contrib, final_report, summary,
                 meeting_title, follow_up_time, result, run_start, calls,
                 tool_calls, log_failed>>
  /\ rows' = <<>>
  /\ store_call' = no_call
  /\ UNCHANGED shared_vars

\* if mod_output...startswith("CONCLUSION:"): return the report; else next round.
Research_Test ==
  /\ status = "running" /\ pc = "test"
  /\ IF concluded(output)
     THEN /\ final_report' = report_of(output)
          /\ result' = <<report_of(output)>>
          /\ status' = "returned"
          /\ pc' = "none"
          /\ UNCHANGED <<r, agent_idx>>
     ELSE /\ r' = r + 1
          /\ agent_idx' = 1
          /\ pc' = IF in_range(r + 1) THEN "generate" ELSE "return"
          /\ UNCHANGED <<final_report, result, status>>
  /\ UNCHANGED <<store_vars, orch_vars, workflow, task, output, contrib,
                 summary, meeting_title, follow_up_time, run_start, calls,
                 tool_calls, log_failed, puts>>
  /\ rows' = <<>>
  /\ store_call' = no_call
  /\ UNCHANGED shared_vars

\* The loop is exhausted: return {"board": ..., "final": {"summary": final_report}}.
Research_Return ==
  /\ status = "running" /\ pc = "return"
  /\ result' = <<final_report>>
  /\ status' = "returned"
  /\ pc' = "none"
  /\ UNCHANGED <<store_vars, orch_vars, workflow, task, r, agent_idx, output,
                 contrib, final_report, summary, meeting_title, follow_up_time,
                 run_start, calls, puts, tool_calls, log_failed>>
  /\ rows' = <<>>
  /\ store_call' = no_call
  /\ UNCHANGED shared_vars

\* ------------------------------------------------- run_schedule_optimization

\* Variant of needs_scheduling: "budget" counts as a keyword too.
needs_scheduling_budget(action_items) ==
  LET action_lower == lower(action_items)
  IN \/ contains("schedule", action_lower)
     \/ contains("finalize", action_lower)
     \/ contains("review", action_lower)
     \/ contains("budget", action_lower)

\* "schedule" in action_lower or "finalize" in action_lower or "review" in action_lower
needs_scheduling(action_items) ==
  LET action_lower == lower(action_items)
  IN \/ contains("schedule", action_lower)
     \/ contains("finalize", action_lower)
     \/ contains("review", action_lower)

\* Variant of title_for: "report" is looked for before "budget".
title_for_report_first(action_items) ==
  LET action_lower == lower(action_items)
  IN IF contains("report", action_lower) THEN "Review Detailed Report"
     ELSE IF contains("budget", action_lower) THEN "Finalize Q4 Budget"
     ELSE "General Follow-up Meeting"

\* The if / elif / else that picks meeting_title.
title_for(action_items) ==
  LET action_lower == lower(action_items)
  IN IF contains("budget", action_lower) THEN "Finalize Q4 Budget"
     ELSE IF contains("report", action_lower) THEN "Review Detailed Report"
     ELSE "General Follow-up Meeting"

\* Variant of booking_report: the booking result is not looked at.
booking_report_always_success(success, title, slot) ==
  "SUCCESS: Follow-up meeting '" \o title \o "' scheduled for " \o slot \o "."

\* The report for a booking result.
booking_report(success, title, slot) ==
  IF success
  THEN "SUCCESS: Follow-up meeting '" \o title \o "' scheduled for " \o slot \o "."
  ELSE "FAILURE: Could not schedule the meeting."

\* run_schedule_optimization(transcript), up to the first agent call.  The
\* transcript reaches the summarizer as its board argument.
run_schedule_optimization ==
  /\ enter_run("schedule")
  /\ task' = ""
  /\ agents' = <<"TranscriptSummarizer", "ActionItemExtractor">>
  /\ final_report' = ""
  /\ r' = 1
  /\ agent_idx' = 1
  /\ pc' = "summarize"
  /\ UNCHANGED <<store_vars, rounds, use_hf, board>>
  /\ rows' = <<>>
  /\ store_call' = no_call
  /\ UNCHANGED shared_vars

\* summary = self.agents["TranscriptSummarizer"].generate(task, transcript); contrib = ...
Schedule_Summarize ==
  /\ status = "running" /\ pc = "summarize"
  /\ \E transcript \in Transcripts, out \in Summaries :
       /\ summary' = out
       /\ output' = out
       /\ contrib' = Contribution("TranscriptSummarizer", out, 8, "generated", 1)
       /\ calls' = Append(calls, [role |-> "TranscriptSummarizer", iteration |-> 1,
                                  board |-> transcript])
  /\ pc' = "sched_log"
  /\ UNCHANGED <<store_vars, orch_vars, workflow, task, status, r, agent_idx,
                 final_report, meeting_title, follow_up_time, result,
                 run_start, tool_calls, log_failed, puts>>
  /\ rows' = <<>>
  /\ store_call' = no_call
  /\ UNCHANGED shared_vars

\* self.store.log(contrib) for the summary and for the action item.
Schedule_Log ==
  /\ status = "running" /\ pc = "sched_log"
  /\ \/ log(contrib) /\ pc' = "sched_put" /\ UNCHANGED <<status, log_failed>>
     \/ raise_out
  /\ UNCHANGED <<orch_vars, workflow, task, r, agent_idx, output, contrib,
                 final_report, summary, meeting_title, follow_up_time, result,
                 run_start, calls, tool_calls, puts>>
  /\ rows' = <<>>
  /\ store_call' = no_call
  /\ UNCHANGED shared_vars

\* self.board["<role>-r1"] = asdict(contrib), then the extractor or the decision.
Schedule_Put ==
  /\ status = "running" /\ pc = "sched_put"
  /\ puts' = Append(puts, [key |-> contrib.role \o "-r1", value |-> asdict(contrib)])
  /\ board' = dict_set(board, contrib.role \o "-r1", asdict(contrib))
  /\ IF agent_idx < Len(agents)
     THEN agent_idx' = agent_idx + 1 /\ pc' = "extract"
     ELSE agent_idx' = agent_idx /\ pc' = "decide"
  /\ UNCHANGED <<store_vars, rounds, use_hf, agents, workflow, task, status, r, output,
                 contrib, final_report, summary, meeting_title, follow_up_time,
                 result, run_start, calls, tool_calls, log_failed>>
  /\ rows' = <<>>
  /\ store_call' = no_call
  /\ UNCHANGED shared_vars

\* action_items = self.agents["ActionItemExtractor"].generate(..., self._board_text())
Schedule_Extract ==
  /\ status = "running" /\ pc = "extract"
  /\ \E out \in ActionItems :
       /\ output' = out
       /\ contrib' = Contribution("ActionItemExtractor", out, 8, "generated", 1)
  /\ calls' = Append(calls, [role |-> "ActionItemExtractor", iteration |-> 1,
                             board |-> _board_text(board)])
  /\ pc' = "sched_log"
  /\ UNCHANGED <<store_vars, orch_vars, workflow, task, status, r, agent_idx,
                 final_report, summary, meeting_title, follow_up_time, result,
                 run_start, tool_calls, log_failed, puts>>
  /\ rows' = <<>>
  /\ store_call' = no_call
  /\ UNCHANGED shared_vars

\* final_report_text and meeting_title are set; the keyword test picks the branch.
Schedule_Decide ==
  /\ status = "running" /\ pc = "decide"
  /\ final_report' = "CONCLUSION: No specific scheduling action item was identified."
  /\ IF needs_scheduling(output)
     THEN meeting_title' = title_for(output) /\ pc' = "find_slot"
     ELSE meeting_title' = "" /\ pc' = "final_log"
  /\ UNCHANGED <<store_vars, orch_vars, workflow, task, status, r, agent_idx,
                 output, contrib, summary, follow_up_time, result, run_start,
                 calls, tool_calls, log_failed, puts>>
  /\ rows' = <<>>
  /\ store_call' = no_call
  /\ UNCHANGED shared_vars

\* follow_up_time = find_available_calendar_slot(duration_minutes=45)
Schedule_FindSlot ==
  /\ status = "running" /\ pc = "find_slot"
  /\ \E slot \in Slots :
       /\ follow_up_time' = slot
       /\ tool_calls' = Append(tool_calls,
             [tool |-> "find_available_calendar_slot", returned |-> slot])
  /\ pc' = "book"
  /\ UNCHANGED <<store_vars, orch_vars, workflow, task, status, r, agent_idx,
                 output, contrib, final_report, summary, meeting_title, result,
                 run_start, calls, log_failed, puts>>
  /\ rows' = <<>>
  /\ store_call' = no_call
  /\ UNCHANGED shared_vars

\* success = book_calendar_event(...): the collaborator answers with a boolean
\* (the stand-in of tools.py always answers True; a calendar service may refuse).
Schedule_Book ==
  /\ status = "running" /\ pc = "book"
  /\ \E success \in BOOLEAN :
       /\ final_report' = booking_report(success, meeting_title, follow_up_time)
       /\ tool_calls' = Append(tool_calls,
             [tool |-> "book_calendar_event", time_slot |-> follow_up_time,
              title |-> meeting_title,
              description |-> "Follow-up based on meeting summary: " \o summary,
              returned |-> success])
  /\ pc' = "final_log"
  /\ UNCHANGED <<store_vars, orch_vars, workflow, task, status, r, agent_idx,
                 output, contrib, summary, meeting_title, follow_up_time,
                 result, run_start, calls, log_failed, puts>>
  /\ rows' = <<>>
  /\ store_call' = no_call
  /\ UNCHANGED shared_vars

\* Variant of Schedule_FinalLog: the final Contribution goes on the board too.
Schedule_FinalLog_put ==
  /\ status = "running" /\ pc = "final_log"
  /\ contrib' = Contribution("Moderator", final_report, 9, "conclusion", 1)
  /\ \/ /\ log(contrib')
        /\ status' = "returned"
        /\ pc' = "none"
        /\ puts' = Append(puts, [key |-> "Moderator-r1", value |-> asdict(contrib')])
        /\ board' = dict_set(board, "Moderator-r1", asdict(contrib'))
        /\ UNCHANGED log_failed
     \/ raise_out /\ UNCHANGED <<puts, board>>
  /\ UNCHANGED <<rounds, agents, use_hf, workflow, task, r, agent_idx, output,
                 final_report, summary, meeting_title, follow_up_time, result,
                 run_start, calls, tool_calls>>
  /\ rows' = <<>>
  /\ store_call' = no_call
  /\ UNCHANGED shared_vars

\* contrib = Contribution("Moderator", final_report_text, 0.9, "conclusion", 1);
\* self.store.log(contrib); the method returns None, the board is not written.
Schedule_FinalLog ==
  /\ status = "running" /\ pc = "final_log"
  /\ contrib' = Contribution("Moderator", final_report, 9, "conclusion", 1)
  /\ \/ /\ log(contrib')
        /\ status' = "returned"
        /\ pc' = "none"
        /\ UNCHANGED log_failed
     \/ raise_out
  /\ UNCHANGED <<orch_vars, workflow, task, r, agent_idx, output, final_report,
                 summary, meeting_title, follow_up_time, result, run_start,
                 calls, tool_calls, puts>>
  /\ rows' = <<>>
  /\ store_call' = no_call
  /\ UNCHANGED shared_vars

\* ------------------------------------------------------------ specification

\* HistoryStore(path) and Orchestrator(store, rounds, use_hf=True) have been
\* constructed on a path that held no database.
Init ==
  /\ table = {}
  /\ sqlite_sequence = 0
  /\ appended = <<>>
  /\ rows = <<>>
  /\ store_call = no_call
  /\ rounds \in 0..MaxRounds
  /\ board = <<>>
  /\ agents = <<>>
  /\ use_hf = TRUE
  /\ workflow = "none"
  /\ task = ""
  /\ status = "idle"
  /\ pc = "none"
  /\ r = 0
  /\ agent_idx = 0
  /\ output = ""
  /\ contrib = <<>>
  /\ final_report = ""
  /\ summary = ""
  /\ meeting_title = ""
  /\ follow_up_time = ""
  /\ result = <<>>
  /\ run_start = 0
  /\ calls = <<>>
  /\ puts = <<>>
  /\ tool_calls = <<>>
  /\ log_failed = FALSE
  /\ inst = <<>>
  /\ lock = 0
  /\ staged = <<>>
  /\ owner = <<>>

Next ==
  \/ HistoryStore_init
  \/ HistoryStore_latest
  \/ Orchestrator_init
  \/ run_research_collaboration
  \/ Research_Generate
  \/ Research_Log
  \/ Research_Put
  \/ Moderator_Generate
  \/ Moderator_Log
  \/ Moderator_Put
  \/ Research_Test
  \/ Research_Return
  \/ run_schedule_optimization
  \/ Schedule_Summarize
  \/ Schedule_Log
  \/ Schedule_Put
  \/ Schedule_Extract
  \/ Schedule_Decide
  \/ Schedule_FindSlot
  \/ Schedule_Book
  \/ Schedule_FinalLog

Spec == Init /\ [][Next]_vars

\* ------------------------------------------------- the rule-based backend

\* The same, with Orchestrator(store, rounds) as main.py's tests construct it:
\* use_hf has its default False and the research agents are FakeLLM objects.
FakeInit ==
  /\ table = {}
  /\ sqlite_sequence = 0
  /\ appended = <<>>
  /\ rows = <<>>
  /\ store_call = no_call
  /\ rounds \in 0..MaxRounds
  /\ board = <<>>
  /\ agents = <<>>
  /\ use_hf = FALSE
  /\ workflow = "none"
  /\ task = ""
  /\ status = "idle"
  /\ pc = "none"
  /\ r = 0
  /\ agent_idx = 0
  /\ output = ""
  /\ contrib = <<>>
  /\ final_report = ""
  /\ summary = ""
  /\ meeting_title = ""
  /\ follow_up_time = ""
  /\ result = <<>>
  /\ run_start = 0
  /\ calls = <<>>
  /\ puts = <<>>
  /\ tool_calls = <<>>
  /\ log_failed = FALSE
  /\ inst = <<>>
  /\ lock = 0
  /\ staged = <<>>
  /\ owner = <<>>

SpecFake == FakeInit /\ [][Next]_vars

\* ------------------------------------------------ the research workflow alone

\* A step of run_research_collaboration after its entry.
ResearchStep ==
  \/ Research_Generate
  \/ Research_Log
  \/ Research_Put
  \/ Moderator_Generate
  \/ Moderator_Log
  \/ Moderator_Put
  \/ Research_Test
  \/ Research_Return

\* Orchestrators are constructed and run research workflows.
ResearchNext ==
  \/ Orchestrator_init
  \/ run_research_collaboration
  \/ ResearchStep

\* A research run is under way.
ResearchRunning == workflow = "research" /\ status = "running"

\* The statement the method is at completes and control goes elsewhere: on to
\* another statement, or out of the method ("none") by a return or a raise.
StatementCompletes ==
  /\ ResearchRunning
  /\ pc' \in {"generate", "log", "put", "mod_generate", "mod_log", "mod_put",
               "test", "return", "none"}

\* The method runs on one thread and no statement blocks for ever: every
\* generate() call and every store.log call comes back, by a value or by an
\* exception, so a run that is under way keeps moving.
SpecTerminate == Init /\ [][ResearchNext]_vars /\ WF_pc(StatementCompletes)

\* ------------------------------------------- a research run of many rounds

\* The i-th Contribution of a research run in which ResearchBot answers
\* "Paris", the other two agents "idea" and the moderator never concludes.
prior_contribution(i) ==
  LET role == <<"ResearchBot", "CreativeBot", "AnalysisBot", "Moderator">>[((i - 1) % 4) + 1]
      q == ((i - 1) \div 4) + 1
  IN IF role = "Moderator"
     THEN Contribution("Moderator", "NEXT_STEP: no CONCLUSION: yet", 9, "review", q)
     ELSE Contribution(role, IF role = "ResearchBot" THEN "Paris" ELSE "idea",
                       8, "generated", q)

\* The board of that run after its first n writes.
RECURSIVE prior_board(_)
prior_board(n) ==
  IF n = 0 THEN <<>>
  ELSE dict_set(prior_board(n - 1),
                board_key(prior_contribution(n).role, prior_contribution(n).iteration),
                asdict(prior_contribution(n)))

\* The run is about to start round rounds, after rounds - 1 rounds of four
\* Contributions each, on a store and an Orchestrator that were new.
RenderInit ==
  /\ rounds \in 1..(MaxPriorRounds + 1)
  /\ table = {inserted_row(prior_contribution(i), i - 1) : i \in 1..(4 * (rounds - 1))}
  /\ sqlite_sequence = 4 * (rounds - 1)
  /\ appended = [i \in 1..(4 * (rounds - 1)) |-> prior_contribution(i)]
  /\ rows = <<>>
  /\ store_call = no_call
  /\ board = prior_board(4 * (rounds - 1))
  /\ agents = <<"ResearchBot", "CreativeBot", "AnalysisBot">>
  /\ use_hf = TRUE
  /\ workflow = "research"
  /\ task \in Tasks(TRUE)
  /\ status = "running"
  /\ pc = "generate"
  /\ r = rounds
  /\ agent_idx = 1
  /\ output = IF rounds = 1 THEN "" ELSE prior_contribution(4 * (rounds - 1)).answer
  /\ contrib = IF rounds = 1 THEN <<>> ELSE prior_contribution(4 * (rounds - 1))
  /\ final_report = "No conclusion reached after maximum rounds."
  /\ summary = ""
  /\ meeting_title = ""
  /\ follow_up_time = ""
  /\ result = <<>>
  /\ run_start = 0
  /\ calls = [i \in 1..(4 * (rounds - 1)) |->
                [role |-> prior_contribution(i).role,
                 iteration |-> prior_contribution(i).iteration,
                 board |-> _board_text(prior_board(i - 1))]]
  /\ puts = [i \in 1..(4 * (rounds - 1)) |->
               [key |-> board_key(prior_contribution(i).role,
                                  prior_contribution(i).iteration),
                value |-> asdict(prior_contribution(i))]]
  /\ tool_calls = <<>>
  /\ log_failed = FALSE
  /\ inst = <<>>
  /\ lock = 0
  /\ staged = <<>>
  /\ owner = <<>>

\* The steps of the research workflow, from there to its end.
RenderNext ==
  \/ Research_Generate
  \/ Research_Log
  \/ Research_Put
  \/ Moderator_Generate
  \/ Moderator_Log
  \/ Moderator_Put
  \/ Research_Test
  \/ Research_Return

SpecRender == RenderInit /\ [][RenderNext]_vars

\* ------------------------------------- two Orchestrators on one store path

\* The Orchestrator objects that share the store path.
Instances == {1, 2}

\* Tasks the instances are run with.
SharedTasks == {"What is the capital of France?", "RCB won their first IPL title"}

\* Orchestrator(store, rounds) with the store on the shared path: the fields
\* of the object, the locals of its run, and the history of what it did.
new_orchestrator(n) ==
  [rounds |-> n, board |-> <<>>, agents |-> <<>>, task |-> "",
   status |-> "idle", pc |-> "none", r |-> 0, agent_idx |-> 0,
   output |-> "", contrib |-> <<>>, final_report |-> "", result |-> <<>>,
   logged |-> <<>>, puts |-> <<>>]

\* Variant of read_board: one board for the whole process, that of instance 1.
read_board_shared(i) == inst[1].board

\* self.board, as _board_text reads it.
read_board(i) == inst[i].board

\* Variant of write_lock_free: INSERT does not wait for the write lock.
write_lock_ignored(l) == TRUE

\* SQLite lets a connection write when no other connection holds the write
\* lock of the database file.
write_lock_free(l) == l = 0

\* A step of an instance that makes no latest() call; the variables of the
\* single-object specifications stay as they are.
single_unchanged ==
  /\ rows' = <<>>
  /\ store_call' = no_call
  /\ UNCHANGED <<orch_vars, run_vars>>

\* orch.run_research_collaboration(task) on instance i, up to the first round.
Instance_Run(i) ==
  /\ inst[i].status = "idle"
  /\ \E t \in SharedTasks :
       inst' = [inst EXCEPT ![i] =
                  [@ EXCEPT !.task = t,
                            !.agents = <<"ResearchBot", "CreativeBot", "AnalysisBot">>,
                            !.status = "running",
                            !.final_report = "No conclusion reached after maximum rounds.",
                            !.r = 1,
                            !.agent_idx = 1,
                            !.pc = IF 1 <= inst[i].rounds THEN "generate" ELSE "return"]]
  /\ UNCHANGED <<store_vars, lock, staged, owner>>
  /\ single_unchanged

\* output = agent.generate(task, self._board_text()) and contrib = Contribution(...),
\* for an agent of the round or for the moderator; the agents are FakeLLM objects.
Instance_Generate(i) ==
  /\ inst[i].status = "running"
  /\ inst[i].pc \in {"generate", "mod_generate"}
  /\ LET o == inst[i]
         mod == o.pc = "mod_generate"
         role == IF mod THEN "Moderator" ELSE o.agents[o.agent_idx]
         out == FakeLLM_generate(role, o.task, _board_text(read_board(i)))
     IN inst' = [inst EXCEPT ![i] =
                   [@ EXCEPT !.output = out,
                             !.contrib = Contribution(role, out, IF mod THEN 9 ELSE 8,
                                           IF mod THEN "review" ELSE "generated", o.r),
                             !.pc = IF mod THEN "mod_log" ELSE "log"]]
  /\ UNCHANGED <<store_vars, lock, staged, owner>>
  /\ single_unchanged

\* HistoryStore.log, first half: sqlite3.connect(path) and con.execute(INSERT).
\* The connection takes the write lock and the new row gets the next id.
Instance_Log_Insert(i) ==
  /\ inst[i].status = "running"
  /\ inst[i].pc \in {"log", "mod_log"}
  /\ write_lock_free(lock)
  /\ lock' = i
  /\ staged' = [staged EXCEPT ![i] = inserted_row(inst[i].contrib, sqlite_sequence)]
  /\ inst' = [inst EXCEPT ![i].pc = IF @ = "log" THEN "commit" ELSE "mod_commit"]
  /\ UNCHANGED <<store_vars, owner>>
  /\ single_unchanged

\* HistoryStore.log while another connection holds the write lock: the INSERT
\* gives up when its timeout is over and raises sqlite3.OperationalError, which
\* leaves the workflow method.
Instance_Log_Busy(i) ==
  /\ inst[i].status = "running"
  /\ inst[i].pc \in {"log", "mod_log"}
  /\ lock \notin {0, i}
  /\ inst' = [inst EXCEPT ![i] = [@ EXCEPT !.status = "raised", !.pc = "none"]]
  /\ UNCHANGED <<store_vars, lock, staged, owner>>
  /\ single_unchanged

\* HistoryStore.log, second half: con.commit() and con.close().  The row is in
\* the table and the write lock is free again.
Instance_Log_Commit(i) ==
  /\ inst[i].status = "running"
  /\ inst[i].pc \in {"commit", "mod_commit"}
  /\ table' = table \cup {staged[i]}
  /\ sqlite_sequence' = staged[i].id
  /\ appended' = Append(appended, inst[i].contrib)
  /\ owner' = Append(owner, i)
  /\ lock' = 0
  /\ staged' = [staged EXCEPT ![i] = <<>>]
  /\ inst' = [inst EXCEPT ![i] =
                [@ EXCEPT !.logged = Append(@, inst[i].contrib),
                          !.pc = IF @ = "commit" THEN "put" ELSE "mod_put"]]
  /\ single_unchanged

\* self.board[f"{role}-r{r}"] = asdict(contrib), then the next agent, the
\* moderator, or the test of the moderator's output.
Instance_Put(i) ==
  /\ inst[i].status = "running"
  /\ inst[i].pc \in {"put", "mod_put"}
  /\ LET o == inst[i]
         item == [key |-> board_key(o.contrib.role, o.r), value |-> asdict(o.contrib)]
     IN inst' = [inst EXCEPT ![i] =
                   [@ EXCEPT !.board = dict_set(@, item.key, item.value),
                             !.puts = Append(@, item),
                             !.agent_idx = IF o.pc = "put" /\ o.agent_idx < Len(o.agents)
                                           THEN o.agent_idx + 1 ELSE o.agent_idx,
                             !.pc = IF o.pc = "mod_put" THEN "test"
                                    ELSE IF o.agent_idx < Len(o.agents) THEN "generate"
                                    ELSE "mod_generate"]]
  /\ UNCHANGED <<store_vars, lock, staged, owner>>
  /\ single_unchanged

\* if mod_output...startswith("CONCLUSION:"): return the report; else next round.
Instance_Test(i) ==
  /\ inst[i].status = "running"
  /\ inst[i].pc = "test"
  /\ LET o == inst[i]
     IN inst' = [inst EXCEPT ![i] =
                   IF concluded(o.output)
                   THEN [@ EXCEPT !.final_report = report_of(o.output),
                                  !.result = <<report_of(o.output)>>,
                                  !.status = "returned",
                                  !.pc = "none"]
                   ELSE [@ EXCEPT !.r = o.r + 1,
                                  !.agent_idx = 1,
                                  !.pc = IF o.r + 1 <= o.rounds THEN "generate" ELSE "return"]]
  /\ UNCHANGED <<store_vars, lock, staged, owner>>
  /\ single_unchanged

\* The loop is exhausted: return {"board": ..., "final": {"summary": final_report}}.
Instance_Return(i) ==
  /\ inst[i].status = "running"
  /\ inst[i].pc = "return"
  /\ inst' = [inst EXCEPT ![i] =
                [@ EXCEPT !.result = <<inst[i].final_report>>,
                          !.status = "returned",
                          !.pc = "none"]]
  /\ UNCHANGED <<store_vars, lock, staged, owner>>
  /\ single_unchanged

\* The limit of main.py's read, which is also the default of latest().
default_limit == 10

\* rows = orch.store.latest(10) after the run, as main.py's test does: a read
\* sees the committed rows.
Instance_Latest(i) ==
  /\ inst[i].status = "returned"
  /\ rows' = latest(table, default_limit)
  /\ store_call' = [op |-> "latest", limit |-> default_limit]
  /\ UNCHANGED <<store_vars, shared_vars, orch_vars, run_vars>>

\* Two Orchestrators have been constructed on a path that held no database:
\* the first with any rounds >= 1, the second with rounds=1 as in main.py's
\* tests.  No single-object workflow runs.
SharedInit ==
  /\ table = {}
  /\ sqlite_sequence = 0
  /\ appended = <<>>
  /\ rows = <<>>
  /\ store_call = no_call
  /\ rounds = 0
  /\ board = <<>>
  /\ agents = <<>>
  /\ use_hf = FALSE
  /\ workflow = "none"
  /\ task = ""
  /\ status = "idle"
  /\ pc = "none"
  /\ r = 0
  /\ agent_idx = 0
  /\ output = ""
  /\ contrib = <<>>
  /\ final_report = ""
  /\ summary = ""
  /\ meeting_title = ""
  /\ follow_up_time = ""
  /\ result = <<>>
  /\ run_start = 0
  /\ calls = <<>>
  /\ puts = <<>>
  /\ tool_calls = <<>>
  /\ log_failed = FALSE
  /\ \E n \in 1..MaxSharedRounds :
       inst = [i \in Instances |-> new_orchestrator(IF i = 1 THEN n ELSE 1)]
  /\ lock = 0
  /\ staged = [i \in Instances |-> <<>>]
  /\ owner = <<>>

\* Any instance takes its next step.
SharedNext ==
  \E i \in Instances :
     \/ Instance_Run(i)
     \/ Instance_Generate(i)
     \/ Instance_Log_Insert(i)
     \/ Instance_Log_Busy(i)
     \/ Instance_Log_Commit(i)
     \/ Instance_Put(i)
     \/ Instance_Test(i)
     \/ Instance_Return(i)
     \/ Instance_Latest(i)

SpecShared == SharedInit /\ [][SharedNext]_vars

\* ------------------------------------------------------------------ claims

\* The Contributions the current run has inserted, in insertion order.
RunContribs == SubSeq(appended, run_start + 1, Len(appended))

\* The roles of the research workflow, in the order of a round.
RoundOrder == <<"ResearchBot", "CreativeBot", "AnalysisBot", "Moderator">>

\* Number of generate() calls the current run made on the agent of a role.
CallsOf(role) == Cardinality({i \in 1..Len(calls) : calls[i].role = role})

\* A text that, with leading whitespace dropped and letters upper-cased,
\* begins with CONCLUSION: (the prefix starts after k whitespace characters).
ConclusionPrefixed(text) ==
  \E k \in 0..(Len(text) - 11) :
     /\ At(text, k + 1) \in {"C", "c"}
     /\ \A j \in 1..k : isspace(At(text, j))
     /\ upper(SubSeq(text, k + 1, k + 11)) = "CONCLUSION:"

\* No moderator Contribution of the current run is CONCLUSION-prefixed.
ModeratorNeverConcluded ==
  \A i \in 1..Len(RunContribs) :
     RunContribs[i].role = "Moderator" => ~ConclusionPrefixed(RunContribs[i].answer)

\* C1: a research run with rounds = N whose moderator never gives a
\* CONCLUSION-prefixed output returns after exactly N calls of the moderator and
\* of each of the three agents (none when N = 0), with the fallback report
\* "No conclusion reached after maximum rounds." as its summary.
C1_RoundBudget ==
  (workflow = "research" /\ status = "returned" /\ ModeratorNeverConcluded)
    => /\ \A i \in 1..Len(RoundOrder) : CallsOf(RoundOrder[i]) = rounds
       /\ Len(calls) = 4 * rounds
       /\ result = <<"No conclusion reached after maximum rounds.">>

\* A two-round run that ended on the fallback report after eight calls.
C1_Witness ==
  /\ workflow = "research" /\ status = "returned" /\ rounds = 2
  /\ ModeratorNeverConcluded
  /\ Len(calls) = 8
  /\ result = <<"No conclusion reached after maximum rounds.">>

\* C2: once the moderator's Contribution of round q is CONCLUSION-prefixed, the
\* run makes no generate() call, inserts no Contribution and writes no board
\* item for a round after q, it returns when the test of round q is done, and
\* no earlier moderator Contribution of the run was CONCLUSION-prefixed.
C2_EarlyConclusion ==
  workflow = "research" =>
    \A i \in 1..Len(RunContribs) :
       (RunContribs[i].role = "Moderator" /\ ConclusionPrefixed(RunContribs[i].answer))
         => LET q == RunContribs[i].iteration
            IN /\ \A j \in 1..Len(calls) : calls[j].iteration <= q
               /\ \A j \in 1..Len(RunContribs) : RunContribs[j].iteration <= q
               /\ \A j \in 1..Len(puts) : puts[j].value.iteration <= q
               /\ \A j \in 1..(i - 1) :
                    RunContribs[j].role = "Moderator"
                      => ~ConclusionPrefixed(RunContribs[j].answer)
               /\ status = "running" => pc \in {"mod_put", "test"} /\ r = q
               /\ q <= rounds

\* A run with rounds = 2 that returned after round 1, on a lower-case prefix.
C2_Witness ==
  /\ workflow = "research" /\ status = "returned" /\ rounds = 2
  /\ Len(RunContribs) = 4
  /\ RunContribs[4].answer = " conclusion: done \n"
  /\ Len(calls) = 4 /\ Len(puts) = 4

\* The moderator text with the leading prefix removed and the rest trimmed.
PrefixStripped(text) ==
  LET trimmed == strip(text) IN strip(SubSeq(trimmed, 12, Len(trimmed)))

\* C3: when a research run returns on a CONCLUSION-prefixed moderator text, its
\* summary is that text with the leading prefix removed and surrounding
\* whitespace trimmed, nothing else changed.
C3_ReportText ==
  (workflow = "research" /\ status = "returned" /\ Len(RunContribs) > 0
     /\ ConclusionPrefixed(RunContribs[Len(RunContribs)].answer))
    => result = <<PrefixStripped(RunContribs[Len(RunContribs)].answer)>>

\* The n most recently inserted Contributions, newest first.
NewestFirst(n) ==
  LET m == IF n < Len(appended) THEN n ELSE Len(appended)
  IN [i \in 1..m |-> appended[Len(appended) - i + 1]]

\* C4: for every limit n >= 0, latest(n) is the min(n, number of records) most
\* recently inserted records, newest first; latest(0) is empty; latest(1) after
\* an insert is the record just inserted; a latest call returns exactly that.
C4_LatestOrder ==
  /\ \A n \in (0..MaxLimit) \cup {Len(appended), Len(appended) + 1} :
       latest(table, n) = NewestFirst(n)
  /\ latest(table, 0) = <<>>
  /\ Len(appended) > 0 => latest(table, 1) = <<appended[Len(appended)]>>
  /\ store_call.op = "latest" => rows = NewestFirst(store_call.limit)

\* latest(2) on a store of three or more records returned the last two, the
\* newer one first.
C4_Witness ==
  /\ store_call.op = "latest" /\ store_call.limit = 2
  /\ Len(appended) >= 3
  /\ rows = <<appended[Len(appended)], appended[Len(appended) - 1]>>
  /\ rows[1] # rows[2]

\* a is an initial segment of b.
IsPrefix(a, b) == Len(a) <= Len(b) /\ SubSeq(b, 1, Len(a)) = a

\* C5: the store is append-only.  No step (construction on the same path,
\* log, latest, any step of any run) removes or changes a row: every row stays,
\* a new row gets an id above all existing ones, and the insertion history only
\* grows at its end.
C5_AppendOnly ==
  [][/\ table \subseteq table'
     /\ \A new \in table' \ table : \A old \in table : new.id > old.id
     /\ IsPrefix(appended, appended')]_vars

\* The store was constructed again on a path that holds two or more records,
\* and they are all there.
C5_Witness ==
  /\ store_call.op = "open"
  /\ Cardinality(table) >= 2
  /\ Cardinality(table) = Len(appended)

\* C6: every board item sits under the key role-r{iteration} of its value, and
\* a row with the same role, answer and iteration is already in the store, in
\* every state, the states left by an aborted run included.
C6_StoreAheadOfBoard ==
  \A i \in 1..Len(board) :
     LET v == board[i].value
     IN /\ board[i].key = v.role \o "-r" \o str(v.iteration)
        /\ \E row \in table :
             /\ row.role = v.role
             /\ row.answer = v.answer
             /\ row.iteration = v.iteration

\* A run aborted by the store with an item already on the board.
C6_Witness ==
  /\ status = "raised" /\ log_failed
  /\ Len(board) >= 1
  /\ Len(puts) >= 1

\* The Contribution the research workflow inserts i-th in a run.
ExpectedContribution(i, answer) ==
  LET role == RoundOrder[((i - 1) % 4) + 1]
  IN Contribution(role, answer,
                  IF role = "Moderator" THEN 9 ELSE 8,
                  IF role = "Moderator" THEN "review" ELSE "generated",
                  ((i - 1) \div 4) + 1)

\* C7: in a research run the generate() calls come one at a time in the order
\* ResearchBot, CreativeBot, AnalysisBot, Moderator, round after round; the
\* Contribution of each call is inserted before the next call, with the round as
\* iteration, confidence 0.8 and rationale "generated" for the three agents and
\* role "Moderator", confidence 0.9, rationale "review" for the moderator; a run
\* that returns has inserted one Contribution per role for each executed round.
C7_RoundOrder ==
  workflow = "research" =>
    /\ \A i \in 1..Len(RunContribs) :
         RunContribs[i] = ExpectedContribution(i, RunContribs[i].answer)
    /\ \A i \in 1..Len(calls) :
         /\ calls[i].role = RoundOrder[((i - 1) % 4) + 1]
         /\ calls[i].iteration = ((i - 1) \div 4) + 1
    /\ Len(calls) - Len(RunContribs) \in {0, 1}
    /\ status = "returned" => Len(RunContribs) = Len(calls) /\ Len(calls) % 4 = 0

\* A run of two full rounds: eight Contributions.
C7_Witness ==
  /\ workflow = "research" /\ status = "returned"
  /\ Len(RunContribs) = 8
  /\ RunContribs[8].role = "Moderator" /\ RunContribs[8].iteration = 2

\* a < b in lexicographic order, character by character.
RECURSIVE LexLess(_, _)
LexLess(a, b) ==
  IF b = "" THEN FALSE
  ELSE IF a = "" THEN TRUE
  ELSE IF At(a, 1) = At(b, 1) THEN LexLess(Tail(a), Tail(b))
  ELSE ord(At(a, 1)) < ord(At(b, 1))

\* The answer the board holds under key k.
AnswerUnder(k) == board[CHOOSE i \in 1..Len(board) : board[i].key = k].value.answer

\* The blocks of the keys in K, least key first, one blank line between blocks.
RECURSIVE BlocksOf(_)
BlocksOf(K) ==
  LET k == CHOOSE x \in K : \A y \in K \ {x} : LexLess(x, y)
      block == "--- Contribution from " \o k \o " ---\n" \o AnswerUnder(k)
  IN IF K = {k} THEN block ELSE block \o "\n\n" \o BlocksOf(K \ {k})

\* C8: _board_text of an empty board is "(empty)"; of a non-empty board it is
\* one block per key, in ascending lexicographic order of the keys, each a
\* header line naming the key followed by the answer, blocks separated by one
\* blank line: a function of the key-to-answer mapping alone.
C8_BoardText ==
  _board_text(board) =
    IF Len(board) = 0 THEN "(empty)"
    ELSE BlocksOf({board[i].key : i \in 1..Len(board)})

\* The moderator of round 10 was handed a text in which the block of
\* ResearchBot-r10 stands right before that of ResearchBot-r2, and the block of
\* AnalysisBot-r1 comes first though ResearchBot-r1 was written first.
C8_Witness ==
  /\ Len(calls) = 40
  /\ calls[40].role = "Moderator"
  /\ puts[1].key = "ResearchBot-r1"
  /\ startswith(calls[40].board, "--- Contribution from AnalysisBot-r1 ---\nidea\n\n")
  /\ contains("--- Contribution from ResearchBot-r10 ---\nParis\n\n"
                \o "--- Contribution from ResearchBot-r2 ---\n", calls[40].board)
  /\ calls[40].board = _board_text(board)

\* C9: the first generate() call of every research run is handed the empty
\* sentinel as board text, also on an Orchestrator that has run before.
C9_BoardStartsEmpty ==
  (workflow = "research" /\ Len(calls) >= 1) => calls[1].board = "(empty)"

\* C10: when a store.log of a run raises, the run is over as a failure: from
\* that step on no generate() call, no calendar tool call and no board write
\* is made, and no summary is returned.
C10_StorageFailureAborts ==
  [][log_failed' =>
       /\ status' = "raised"
       /\ result' = <<>>
       /\ board' = board
       /\ puts' = puts
       /\ calls' = calls
       /\ tool_calls' = tool_calls]_vars

\* A schedule run whose second insert raised: one item on the board, the
\* extractor's Contribution neither in the store nor on the board.
C10_Witness ==
  /\ workflow = "schedule" /\ status = "raised" /\ log_failed
  /\ contrib.role = "ActionItemExtractor"
  /\ Len(puts) = 1
  /\ Len(RunContribs) = 1
  /\ tool_calls = <<>>

\* ------------------------------------------- claims on the schedule workflow

\* The current run is a schedule run whose ActionItemExtractor has answered;
\* from then on `output` is the action-item text.
ActionItemKnown == workflow = "schedule" /\ Len(calls) = 2

\* One of the three scheduling keywords occurs in the lower-cased text.
KeywordPresent(text) ==
  LET text_lower == lower(text)
  IN \E kw \in {"schedule", "finalize", "review"} : contains(kw, text_lower)

\* The action-item texts of the model that hold a scheduling keyword.
KeywordTexts == {text \in ActionItems : KeywordPresent(text)} \cup {}

\* The Contribution the run inserted last.
LastContrib == RunContribs[Len(RunContribs)]

\* C12: in a schedule run whose action-item text, lower-cased, contains none of
\* "schedule", "finalize", "review", neither calendar tool is ever called, and
\* when the run returns the final Moderator Contribution carries the fixed text
\* "CONCLUSION: No specific scheduling action item was identified.".
C12_NoActionBranch ==
  (ActionItemKnown /\ output \in ActionItems \ KeywordTexts) =>
     /\ tool_calls = <<>>
     /\ status = "returned" =>
          /\ LastContrib.role = "Moderator"
          /\ LastContrib.answer =
               "CONCLUSION: No specific scheduling action item was identified."

\* A schedule run on "Send the budget" returned with no tool call made.
C12_Witness ==
  /\ ActionItemKnown /\ status = "returned"
  /\ output = "Send the budget"
  /\ tool_calls = <<>>
  /\ LastContrib.answer = "CONCLUSION: No specific scheduling action item was identified."

\* The title the ordered checks give for an action-item text.
TitleByOrder(text) ==
  LET text_lower == lower(text)
  IN CASE contains("budget", text_lower) -> "Finalize Q4 Budget"
       [] ~contains("budget", text_lower) /\ contains("report", text_lower)
            -> "Review Detailed Report"
       [] OTHER -> "General Follow-up Meeting"

\* The action-item texts of the model, each with the title the ordered checks
\* give it.
TitledTexts == {<<text, TitleByOrder(text)>> : text \in ActionItems} \cup {}

\* The book_calendar_event calls of the current run.
Bookings == {i \in 1..Len(tool_calls) : tool_calls[i].tool = "book_calendar_event"}

\* C13: when the action-item text holds a scheduling keyword, the title handed
\* to book_calendar_event is "Finalize Q4 Budget" if the lower-cased text
\* contains "budget" (with or without "report"), else "Review Detailed Report"
\* if it contains "report", else "General Follow-up Meeting"; and a run that
\* returns has made that booking call.
C13_TitleMapping ==
  (ActionItemKnown /\ output \in KeywordTexts) =>
     /\ \A i \in Bookings : <<output, tool_calls[i].title>> \in TitledTexts
     /\ status = "returned" => Bookings # {}

\* "Schedule the Budget report", which names both, was booked as the budget
\* meeting.
C13_Witness ==
  /\ ActionItemKnown /\ status = "returned"
  /\ output = "Schedule the Budget report"
  /\ \E i \in Bookings : tool_calls[i].title = "Finalize Q4 Budget"

\* C14: a schedule run that returns has inserted exactly three Contributions:
\* TranscriptSummarizer and ActionItemExtractor with confidence 0.8 and rationale
\* "generated", then Moderator with confidence 0.9, rationale "conclusion" and
\* the final report as answer, all with iteration 1; it has written exactly the
\* board keys TranscriptSummarizer-r1 and ActionItemExtractor-r1, with those two
\* Contributions as values, and nothing for the Moderator.
C14_ScheduleEffects ==
  (workflow = "schedule" /\ status = "returned") =>
     /\ RunContribs =
          <<Contribution("TranscriptSummarizer", summary, 8, "generated", 1),
            Contribution("ActionItemExtractor", output, 8, "generated", 1),
            Contribution("Moderator", final_report, 9, "conclusion", 1)>>
     /\ puts = <<[key |-> "TranscriptSummarizer-r1", value |-> asdict(RunContribs[1])],
                 [key |-> "ActionItemExtractor-r1", value |-> asdict(RunContribs[2])]>>
     /\ \A i \in 1..Len(board) :
          board[i].key \in {"TranscriptSummarizer-r1", "ActionItemExtractor-r1"}
            => board[i].value = asdict(RunContribs[IF board[i].key = "TranscriptSummarizer-r1" THEN 1 ELSE 2])
     /\ \A i \in 1..Len(board) : board[i].value.rationale # "conclusion"

\* A schedule run returned after a booking: three Contributions, two board
\* writes.
C14_Witness ==
  /\ workflow = "schedule" /\ status = "returned"
  /\ Len(RunContribs) = 3 /\ Len(puts) = 2
  /\ RunContribs[3].rationale = "conclusion"
  /\ Len(tool_calls) = 2

\* C19: when the action-item text holds a scheduling keyword, the calendar
\* tools are called in the order find_available_calendar_slot, then
\* book_calendar_event, once each; the booking gets the slot the finder returned
\* and the derived title; a run that returns has made both calls, and its final
\* Moderator Contribution carries "SUCCESS: Follow-up meeting '<title>' scheduled
\* for <slot>." exactly when the booking returned true and "FAILURE: Could not
\* schedule the meeting." when it returned false.
C19_ReportFollowsBooking ==
  (ActionItemKnown /\ output \in KeywordTexts) =>
     /\ Len(tool_calls) <= 2
     /\ Len(tool_calls) >= 1 => tool_calls[1].tool = "find_available_calendar_slot"
     /\ Len(tool_calls) = 2 =>
          /\ tool_calls[2].tool = "book_calendar_event"
          /\ tool_calls[2].time_slot = tool_calls[1].returned
          /\ tool_calls[2].title = meeting_title
     /\ status = "returned" =>
          /\ Len(tool_calls) = 2
          /\ LastContrib.role = "Moderator" /\ LastContrib.rationale = "conclusion"
          /\ tool_calls[2].returned =>
               LastContrib.answer =
                 "SUCCESS: Follow-up meeting '" \o tool_calls[2].title
                   \o "' scheduled for " \o tool_calls[1].returned \o "."
          /\ ~tool_calls[2].returned =>
               LastContrib.answer = "FAILURE: Could not schedule the meeting."

\* A booking was refused and the run still returned, the FAILURE text inserted.
C19_Witness ==
  /\ ActionItemKnown /\ status = "returned"
  /\ Len(tool_calls) = 2
  /\ tool_calls[2].returned = FALSE
  /\ tool_calls[2].time_slot = "2026-01-06 09:05"
  /\ LastContrib.answer = "FAILURE: Could not schedule the meeting."

\* A booking succeeded and the SUCCESS text names its title and slot.
C19_SuccessReported ==
  /\ ActionItemKnown /\ status = "returned"
  /\ Len(tool_calls) = 2
  /\ tool_calls[2].returned = TRUE
  /\ LastContrib.answer =
       "SUCCESS: Follow-up meeting 'Review Detailed Report' scheduled for 2026-01-05 13:30."

\* ------------------------------------- more claims on the research workflow

\* The current research run found the board empty when it was entered.
EmptyStart ==
  /\ workflow = "research"
  /\ IF calls = <<>> THEN board = <<>> ELSE calls[1].board = "(empty)"

\* The dict that holds the first n board writes of the current run, in order.
RECURSIVE BoardAfter(_)
BoardAfter(n) ==
  IF n = 0 THEN <<>>
  ELSE dict_set(BoardAfter(n - 1), puts[n].key, puts[n].value)

\* The rounds the current run has executed in full.
ExecutedRounds == Len(puts) \div 4

\* A generate() call of a research run has just returned: it is the last of
\* `calls` and the board is still as the call found it.  Every call of a run
\* is in this position once.
JustCalled == workflow = "research" /\ status = "running" /\ pc \in {"log", "mod_log"}

\* C18: in a research run, the board text handed to a generate() call is the
\* rendering of the board as it is at the call.  In a run entered with an empty
\* board, call number i = 4(q-1)+k (k-th role of round q, the moderator being
\* the 4th) is handed the rendering of exactly the Contributions of the i-1
\* calls before it: all of rounds 1..q-1 and those of the first k-1 roles of
\* round q, each written under its own key, so a moderator is never handed its
\* own Contribution of the round.
C18_ContextSeen ==
  /\ EmptyStart =>
       /\ \A i \in 1..Len(puts) :
            /\ puts[i].key = RoundOrder[((i - 1) % 4) + 1] \o "-r" \o str(((i - 1) \div 4) + 1)
            /\ puts[i].value = asdict(RunContribs[i])
       /\ Len(puts) >= Len(calls) - 1
  /\ JustCalled =>
       LET i == Len(calls)
           text == calls[i].board
           own == RoundOrder[((i - 1) % 4) + 1] \o "-r" \o str(((i - 1) \div 4) + 1)
       IN /\ text = _board_text(board)
          /\ EmptyStart =>
               /\ Len(puts) = i - 1
               /\ board = BoardAfter(i - 1)
               /\ ~contains("--- Contribution from " \o own \o " ---", text)

\* The moderator of round 2 was handed seven blocks: Moderator-r1 among them,
\* Moderator-r2 not.
C18_Witness ==
  /\ EmptyStart
  /\ Len(calls) = 8 /\ Len(puts) = 8
  /\ calls[8].role = "Moderator"
  /\ calls[8].board = _board_text(BoardAfter(7))
  /\ contains("--- Contribution from Moderator-r1 ---", calls[8].board)
  /\ ~contains("--- Contribution from Moderator-r2 ---", calls[8].board)
  /\ contains("--- Contribution from AnalysisBot-r2 ---", calls[8].board)

\* C20: in a research run entered with an empty board no key is written twice:
\* the board is the sequence of the run's writes, one item per write; when k
\* rounds have been executed in full it holds exactly the 4k keys role-r{q} of
\* the four roles and the rounds 1..k, as many as the run has inserted
\* Contributions.
C20_NoKeyTwice ==
  EmptyStart =>
     /\ \A i \in 1..Len(puts) : \A j \in 1..Len(puts) :
          puts[i].key = puts[j].key => i = j
     /\ board = puts
     /\ (status = "returned" \/ (status = "running" /\ pc \in {"test", "return"})
          \/ (status = "running" /\ pc = "generate" /\ agent_idx = 1)) =>
          /\ Len(board) = 4 * ExecutedRounds
          /\ {board[i].key : i \in 1..Len(board)} =
               {RoundOrder[k] \o "-r" \o str(q) : k \in 1..4, q \in 1..ExecutedRounds}
          /\ Len(RunContribs) = Len(board)

\* Two rounds were executed from an empty board: eight items, eight rows.
C20_Witness ==
  /\ EmptyStart /\ status = "returned"
  /\ ExecutedRounds = 2
  /\ Len(board) = 8 /\ Len(RunContribs) = 8
  /\ board[8].key = "Moderator-r2"

\* ------------------------------------------ claims on the rule-based backend

\* The task, lower-cased, contains the text.
TaskAsks(text) == contains(text, lower(task))

\* A research run of FakeLLM agents, entered with an empty board and
\* rounds >= 1, on a task that asks for one of the two capitals.
CapitalRun ==
  /\ ~use_hf
  /\ EmptyStart
  /\ rounds >= 1
  /\ TaskAsks("capital of france") \/ TaskAsks("capital of india")

\* What follows the ResearchBot's answer of round 1 in such a run: the answer
\* is inserted as the run's first Contribution, the moderator's Contribution of
\* round 1 is CONCLUSION-prefixed, no call is made for a later round, and the
\* run returns after round 1 with the summary "The report is complete.".
ConcludesInRoundOne ==
  /\ Len(calls) >= 1 => calls[1].role = "ResearchBot"
  /\ (Len(calls) = 1 /\ status = "running" /\ pc = "put") =>
        RunContribs = <<Contribution("ResearchBot", output, 8, "generated", 1)>>
  /\ Len(RunContribs) >= 4 =>
        /\ RunContribs[4].role = "Moderator"
        /\ ConclusionPrefixed(RunContribs[4].answer)
  /\ \A i \in 1..Len(calls) : calls[i].iteration = 1
  /\ Len(calls) <= 4
  /\ status = "returned" =>
        /\ Len(RunContribs) = 4
        /\ RunContribs[1].role = "ResearchBot"
        /\ result = <<"The report is complete.">>

\* The text the ResearchBot gave in round 1, once it has answered.
ResearchAnswer ==
  IF Len(RunContribs) >= 1 THEN RunContribs[1].answer ELSE output

\* C15: with FakeLLM agents, an empty board at entry and rounds >= 1, if the
\* task contains "capital of france" (in any case) the ResearchBot's answer of
\* round 1 contains "Paris"; if it contains "capital of india" and not "capital
\* of france" the answer is exactly "New Delhi"; in both cases the answer is
\* inserted into the store, the moderator's output of round 1 is
\* CONCLUSION-prefixed and the run returns after round 1 with the summary "The
\* report is complete.".
C15_RuleBasedConclusion ==
  CapitalRun =>
     /\ ConcludesInRoundOne
     /\ Len(calls) >= 1 =>
          /\ TaskAsks("capital of france") => contains("Paris", ResearchAnswer)
          /\ (TaskAsks("capital of india") /\ ~TaskAsks("capital of france"))
               => ResearchAnswer = "New Delhi"

\* A task that names both capitals got the France answer and the run, with
\* rounds = 2, returned after round 1.
C15_Witness ==
  /\ CapitalRun /\ status = "returned" /\ rounds = 2
  /\ TaskAsks("capital of france") /\ TaskAsks("capital of india")
  /\ Len(RunContribs) = 4
  /\ RunContribs[1].answer = "Paris is the capital of France, known for the Eiffel Tower."
  /\ result = <<"The report is complete.">>

\* A task in capitals that asks for India alone was answered "New Delhi".
C15_IndiaAnswered ==
  /\ CapitalRun /\ status = "returned"
  /\ task = "CAPITAL OF INDIA"
  /\ RunContribs[1].answer = "New Delhi"

\* C15 as stated: the answer contains "Paris" for a task that contains "capital
\* of France", and is exactly "New Delhi" for every task that contains "capital
\* of india".
C15_AsStated ==
  CapitalRun =>
     /\ ConcludesInRoundOne
     /\ Len(calls) >= 1 =>
          /\ (TaskAsks("capital of france") /\ ~TaskAsks("capital of india"))
               => contains("Paris", ResearchAnswer)
          /\ TaskAsks("capital of india") => ResearchAnswer = "New Delhi"

\* ------------------------------------------------------------- termination

\* The moderator text of the last round the current run executed.
LastModeratorOutput ==
  LET mods == {i \in 1..Len(calls) : calls[i].role = "Moderator"}
  IN IF mods = {} \/ Len(RunContribs) < Len(calls) THEN ""
     ELSE RunContribs[Len(calls)].answer

\* C17: a research run makes at most `rounds` moderator calls, for every
\* rounds >= 0 and whatever the moderator answers; every run that is under way
\* comes to return a result, unless a store.log raised; and the summary it
\* returns is the fallback text or what is left of the last round's moderator
\* output when CONCLUSION: is taken out and the rest is trimmed.
C17_Terminates ==
  /\ [](workflow = "research" =>
          /\ CallsOf("Moderator") <= rounds
          /\ status = "returned" =>
               \/ result = <<"No conclusion reached after maximum rounds.">>
               \/ /\ ConclusionPrefixed(LastModeratorOutput)
                  /\ result = <<report_of(LastModeratorOutput)>>)
  /\ ((workflow = "research" /\ status = "running")
        ~> (status = "returned" \/ log_failed))

\* A run with rounds = 2 returned after two moderator calls, the second one
\* concluding.
C17_Witness ==
  /\ workflow = "research" /\ status = "returned" /\ rounds = 2
  /\ CallsOf("Moderator") = 2
  /\ ~log_failed
  /\ result = <<"X">>

\* ----------------------------------------- claims on the shared store path

\* The Contributions among the first n inserted that instance i inserted, in
\* the order of their ids.
RECURSIVE RecordsOf(_, _)
RecordsOf(i, n) ==
  IF n = 0 THEN <<>>
  ELSE IF owner[n] = i THEN Append(RecordsOf(i, n - 1), appended[n])
       ELSE RecordsOf(i, n - 1)

\* Instance i's run has returned.
Done(i) == inst[i].status = "returned"

\* C11: with two Orchestrators running against one store path, their inserts
\* and reads interleaved in any order, the table holds exactly one row per
\* completed store.log call of either instance, each under an id of its own;
\* the rows of one instance, by id, are that instance's Contributions in the
\* order it made them (ResearchBot, CreativeBot, AnalysisBot, Moderator, round
\* by round); a read returns committed rows only, newest first; and the board
\* of an instance is exactly the sequence of that instance's own writes.
C11_SharedStore ==
  /\ Cardinality(table) = Len(appended)
  /\ Len(appended) = Len(inst[1].logged) + Len(inst[2].logged)
  /\ \A k \in 1..Len(appended) :
       \E row \in table :
          /\ row.id = k
          /\ Contribution(row.role, row.answer, row.confidence, row.rationale,
                          row.iteration) = appended[k]
  /\ \A i \in Instances :
       /\ RecordsOf(i, Len(appended)) = inst[i].logged
       /\ \A j \in 1..Len(inst[i].logged) :
            inst[i].logged[j] = ExpectedContribution(j, inst[i].logged[j].answer)
       /\ inst[i].board = inst[i].puts
       /\ \A j \in 1..Len(inst[i].puts) :
            inst[i].puts[j].value = asdict(inst[i].logged[j])
  /\ store_call.op = "latest" => rows = NewestFirst(store_call.limit)

\* Both runs returned with their inserts interleaved; the first two rows have
\* the same content and different owners, and both are there.
C11_Witness ==
  /\ Done(1) /\ Done(2)
  /\ Len(appended) = 8
  /\ owner[1] = 1 /\ owner[2] = 2 /\ owner[3] = 2 /\ owner[4] = 1
  /\ appended[1] = appended[2]
  /\ Cardinality(table) = 8
  /\ Len(inst[1].board) = 4 /\ Len(inst[2].board) = 4

\* C16: two research runs of FakeLLM agents on the same task, each on a board
\* that was empty, insert the same Contributions in the same order as far as
\* both have come; with the same rounds, once both have returned, they have
\* inserted the same sequence of Contributions, hold the same board and
\* returned the same summary.
C16_Deterministic ==
  (inst[1].status # "idle" /\ inst[2].status # "idle" /\ inst[1].task = inst[2].task) =>
     /\ IsPrefix(inst[1].logged, inst[2].logged) \/ IsPrefix(inst[2].logged, inst[1].logged)
     /\ (Done(1) /\ Done(2) /\ inst[1].rounds = inst[2].rounds) =>
          /\ inst[1].logged = inst[2].logged
          /\ inst[1].board = inst[2].board
          /\ inst[1].result = inst[2].result

\* Two runs on the demo topic with rounds = 1 returned: four Contributions
\* each, the same ones, and the fallback summary twice.
C16_Witness ==
  /\ Done(1) /\ Done(2)
  /\ inst[1].task = "RCB won their first IPL title" /\ inst[2].task = inst[1].task
  /\ inst[1].rounds = inst[2].rounds
  /\ Len(inst[1].logged) = 4 /\ inst[1].logged = inst[2].logged
  /\ inst[1].board = inst[2].board /\ Len(inst[1].board) = 4
  /\ inst[1].result = <<"No conclusion reached after maximum rounds.">>
  /\ inst[2].result = inst[1].result

====
